---- MODULE Spec2Model ----
(***************************************************************************)
(* Order-management backend: PurchaseService, WompiPurchaseService and the *)
(* OrderDetailPrismaAdapter, modelled as a state machine over the          *)
(* purchases table, the order_details table, the product catalog and the   *)
(* payment gateway's sessions.                                             *)
(*                                                                         *)
(* Representation.  A string the code inspects (email, name, numbers) is a *)
(* sequence of one-character strings.  A DECIMAL(10,2) amount (a price, a  *)
(* line total, the grand total) is the integer number of hundredths, so    *)
(* 50.00 is 5000; Purchase.amount is the integer the code stores.          *)
(* Identifiers (externalReference, transaction ids) are records [t, n].    *)
(***************************************************************************)
EXTENDS Integers, Sequences, FiniteSets, TLC

VARIABLES
    products,       \* the catalog: productId -> product row
    purchases,      \* the purchases table: a sequence, id = position (SERIAL)
    orderDetails,   \* the order_details table: a set of rows
    nextDetailId,   \* the next value of order_details.id (SERIAL)
    sessions,       \* payment sessions the gateway has created
    call,           \* the PurchaseService.createPurchase call in flight
    now,            \* the wall clock (new Date())
    last            \* the last operation that returned or threw, and its outcome

vars == <<products, purchases, orderDetails, nextDetailId, sessions, call, now, last>>

store == <<purchases, orderDetails, nextDetailId, sessions>>

----------------------------------------------------------------------------
(* Bounds of the model *)

MaxPurchases == 2      \* rows of the purchases table
MaxCreated == 1        \* purchases made by PurchaseService, where bounded
MaxCart == 2           \* items of a cart
MaxTime == 1           \* ticks of the clock
MaxDetailId == 2       \* values of order_details.id
NumRefTokens == 2      \* values `REF-${Date.now()}-${random}` can take
MaxWompi == 1          \* purchases made by WompiPurchaseService, where bounded

----------------------------------------------------------------------------
(* Strings *)

IsSpace(c) == c = " "

RECURSIVE trimStart(_)
trimStart(s) ==
    IF Len(s) > 0 /\ IsSpace(Head(s)) THEN trimStart(Tail(s)) ELSE s

RECURSIVE trimEnd(_)
trimEnd(s) ==
    IF Len(s) > 0 /\ IsSpace(s[Len(s)]) THEN trimEnd(SubSeq(s, 1, Len(s) - 1)) ELSE s

trim(s) == trimEnd(trimStart(s))

\* [^\s@]+ : a non-empty run without whitespace and without "@"
IsLocalRun(s) == Len(s) > 0 /\ \A i \in 1..Len(s) : ~IsSpace(s[i]) /\ s[i] # "@"

\* /^[^\s@]+@[^\s@]+\.[^\s@]+$/.test(s)
emailRegexTest(s) ==
    \E i \in 1..Len(s) : \E j \in 1..Len(s) :
        /\ i < j
        /\ s[i] = "@"
        /\ s[j] = "."
        /\ IsLocalRun(SubSeq(s, 1, i - 1))
        /\ IsLocalRun(SubSeq(s, i + 1, j - 1))
        /\ IsLocalRun(SubSeq(s, j + 1, Len(s)))

Chars(n, c) == [i \in 1..n |-> c]

----------------------------------------------------------------------------
(* Identifiers *)

NullId == [t |-> "null", n |-> 0]          \* a column left NULL / an absent argument
EmptyId == [t |-> "empty", n |-> 0]        \* the empty string ''
UnknownId == [t |-> "unknown", n |-> 0]    \* a value nothing in the store carries
LocalRef(k) == [t |-> "REF", n |-> k]      \* `REF-${Date.now()}-${random}`
GatewayTx(k) == [t |-> "TX", n |-> k]      \* the gateway's transactionId of session k
GatewayRef(k) == [t |-> "WREF", n |-> k]   \* the gateway's reference of session k

\* JavaScript truthiness of an optional string argument
Truthy(id) == id # NullId /\ id # EmptyId

----------------------------------------------------------------------------
(* Catalog *)

ProductIds == 1..4

ColorsList(l) == [kind |-> "list", list |-> l]   \* a string holding a serialized list
ColorsMalformed == [kind |-> "malformed", list |-> <<>>] \* a string that is no JSON
ColorsNull == [kind |-> "null", list |-> <<>>]    \* colors IS NULL

InitialProducts ==
    (1 :> [id |-> 1, name |-> "lamp", price |-> 5000, status |-> "available",
           colors |-> ColorsList(<<"red">>)])
    @@ (2 :> [id |-> 2, name |-> "desk", price |-> 1999, status |-> "available",
              colors |-> ColorsNull])
    @@ (3 :> [id |-> 3, name |-> "sofa", price |-> 7000, status |-> "sold_out",
              colors |-> ColorsList(<<"red">>)])
    @@ (4 :> [id |-> 4, name |-> "rug", price |-> 300, status |-> "available",
              colors |-> ColorsMalformed])

NullProduct ==
    [id |-> 0, name |-> "", price |-> 0, status |-> "", colors |-> ColorsNull]

\* IProductDataSource.getById(id) -> Product | null
getById(id) == IF id \in DOMAIN products THEN products[id] ELSE NullProduct

----------------------------------------------------------------------------
(* PurchaseService: validation and pricing *)

OK == "ok"

Result(kind, msg, items) == [kind |-> kind, msg |-> msg, items |-> items]

\* validatePurchaseRequest: the message of the ValidationError thrown, or OK
validatePurchaseRequest(request) ==
    IF Len(request.items) = 0 THEN "At least one item is required"
    ELSE IF ~emailRegexTest(request.buyerEmail) THEN "Invalid email format"
    ELSE IF Len(request.buyerName) = 0 \/ Len(trim(request.buyerName)) < 2
        THEN "Buyer name must be at least 2 characters long"
    ELSE IF Len(request.buyerIdentificationNumber) < 6
        THEN "Identification number must be at least 6 characters long"
    ELSE IF Len(request.buyerContactNumber) < 10
        THEN "Contact number must be at least 10 characters long"
    ELSE OK

\* JSON.parse(colorsString) of validateAndCalculateItems: the parsed list, or a throw
parseColors(colors) ==
    IF colors.kind = "list" THEN [threw |-> FALSE, list |-> colors.list]
    ELSE IF colors.kind = "malformed" THEN [threw |-> TRUE, list |-> <<>>]
    ELSE [threw |-> FALSE, list |-> <<>>]     \* not a string: '[]'

includes(list, x) == \E i \in 1..Len(list) : list[i] = x

\* The body of validateAndCalculateItems' loop for one item: the error it throws,
\* or the validated item it pushes
validateItem(item) ==
    LET product == getById(item.productId)
        parsed == parseColors(product.colors)
        unitPrice == product.price
        totalPrice == unitPrice * item.quantity
    IN  IF item.quantity <= 0
            THEN Result("ValidationError", "Quantity must be greater than 0", <<>>)
        ELSE IF product = NullProduct
            THEN Result("ValidationError", "Product not found", <<>>)
        ELSE IF product.status # "available"
            THEN Result("ValidationError", "Product is not available", <<>>)
        ELSE IF item.selectedColor # "" /\ parsed.threw
            THEN Result("SyntaxError", "Unexpected token in JSON", <<>>)
        ELSE IF item.selectedColor # "" /\ ~includes(parsed.list, item.selectedColor)
            THEN Result("ValidationError", "Color not available", <<>>)
        ELSE Result(OK, "",
                    <<[productId |-> item.productId, quantity |-> item.quantity,
                       selectedColor |-> item.selectedColor,
                       productName |-> product.name,
                       unitPrice |-> unitPrice, totalPrice |-> totalPrice]>>)

RECURSIVE validateFrom(_, _, _)
validateFrom(items, i, validatedItems) ==
    IF i > Len(items) THEN Result(OK, "", validatedItems)
    ELSE LET r == validateItem(items[i])
         IN  IF r.kind # OK THEN r
             ELSE validateFrom(items, i + 1, validatedItems \o r.items)

\* validateAndCalculateItems: items are checked in cart order, the first bad one throws
validateAndCalculateItems(items) == validateFrom(items, 1, <<>>)

RECURSIVE reduceSum(_)
\* validatedItems.reduce((sum, item) => sum + item.totalPrice, 0)
reduceSum(validatedItems) ==
    IF Len(validatedItems) = 0 THEN 0
    ELSE reduceSum(SubSeq(validatedItems, 1, Len(validatedItems) - 1))
         + validatedItems[Len(validatedItems)].totalPrice

\* Math.round(x) for the rational x = num / den, den > 0, num >= 0
MathRound(num, den) == (2 * num + den) \div (2 * den)

\* A variant that stores the total unscaled: Math.round(totalAmount)
amountNotScaled(total100) == MathRound(total100, 100)

\* Math.round(totalAmount * 100), totalAmount being total100 hundredths
amountInCents(total100) == MathRound(total100 * 100, 100)

----------------------------------------------------------------------------
(* Inputs *)

GoodEmail == <<"a", "@", "b", ".", "c">>
OtherEmail == <<"z", "@", "b", ".", "c">>
BadEmails ==
    { <<"a", "b", ".", "c">>,              \* no @
      <<"a", "@", "b">>,                   \* no dot after the @
      <<"a", " ", "@", "b", ".", "c">>,    \* whitespace
      <<"a", "@", "b", ".">>,              \* nothing after the dot
      <<>> }

GoodName == <<"A", "l">>
PaddedName == <<" ", "B", "o", " ">>
BadNames == { <<" ", "A", " ">>, <<" ", " ", " ">>, <<>> }

GoodIdNumber == Chars(6, "1")
ShortIdNumber == Chars(5, "1")
GoodContact == Chars(10, "3")
ShortContact == Chars(9, "3")

Item(p, q, c) == [productId |-> p, quantity |-> q, selectedColor |-> c]

\* Cart items: the valid ones, and one for every way an item can be rejected
CartItems ==
    { Item(1, 2, ""), Item(1, 1, "red"), Item(2, 1, ""),
      Item(1, 0, ""), Item(2, -1, ""), Item(5, 1, ""), Item(3, 1, ""),
      Item(1, 1, "blue"), Item(2, 1, "red"), Item(4, 1, "red") }

RECURSIVE SeqsUpTo(_, _)
SeqsUpTo(S, n) ==
    IF n = 0 THEN { <<>> }
    ELSE LET shorter == SeqsUpTo(S, n - 1)
         IN  shorter \cup { Append(q, x) : q \in shorter, x \in S }

Carts == SeqsUpTo(CartItems, MaxCart)

Request(email, name, idNumber, contact, items) ==
    [buyerEmail |-> email, buyerName |-> name, buyerIdentificationNumber |-> idNumber,
     buyerContactNumber |-> contact, items |-> items]

\* Every cart with a well-formed buyer, and every malformed buyer with a good cart
CreatePurchaseRequests ==
    { Request(GoodEmail, GoodName, GoodIdNumber, GoodContact, c) : c \in Carts }
    \cup { Request(e, GoodName, GoodIdNumber, GoodContact, <<Item(1, 2, "")>>) :
              e \in BadEmails }
    \cup { Request(GoodEmail, n, GoodIdNumber, GoodContact, <<Item(1, 2, "")>>) :
              n \in BadNames \cup {PaddedName} }
    \cup { Request(GoodEmail, GoodName, ShortIdNumber, GoodContact, <<Item(1, 2, "")>>),
           Request(GoodEmail, GoodName, GoodIdNumber, ShortContact, <<Item(1, 2, "")>>) }

Statuses == {"PENDING", "APPROVED", "COMPLETED", "REJECTED", "CANCELLED", "FAILED"}

\* The status argument is an unconstrained string: the six above and one that is none
StatusInputs == Statuses \cup {"DECLINED"}

\* The statuses the reconciliation specification delivers
DeliveredStatuses == {"PENDING", "APPROVED"}

----------------------------------------------------------------------------
(* State *)

Idle ==
    [pc |-> "idle", purchaseId |-> 0, items |-> <<>>, i |-> 0, totalAmount |-> 0,
     tx |-> NullId]

\* An operation's outcome: how it ended (OK, or the error thrown), the message, the
\* value returned and the row it wrote
Outcome(op, result, msg, value, target) ==
    [op |-> op, result |-> result, msg |-> msg, value |-> value, target |-> target]

Init ==
    /\ products = InitialProducts
    /\ purchases = <<>>
    /\ orderDetails = {}
    /\ nextDetailId = 1
    /\ sessions = <<>>
    /\ call = Idle
    /\ now = 0
    /\ last = Outcome("none", OK, "", <<>>, 0)

PurchaseIds == 1..Len(purchases)

detailsOf(purchaseId) == { d \in orderDetails : d.purchaseId = purchaseId }

----------------------------------------------------------------------------
(* Payment gateway client (WompiService.createPayment) *)

\* The session the gateway creates next: a transaction id and a reference of its own
createPayment(amount) ==
    [transactionId |-> GatewayTx(Len(sessions) + 1),
     reference |-> GatewayRef(Len(sessions) + 1),
     amount |-> amount]

----------------------------------------------------------------------------
(* PurchaseService.createPurchase *)

\* prisma.purchase.create of createPurchase
newPurchase(request, totalAmount, externalReference) ==
    [id |-> Len(purchases) + 1,
     buyerEmail |-> request.buyerEmail,
     buyerName |-> request.buyerName,
     buyerIdentificationNumber |-> request.buyerIdentificationNumber,
     buyerContactNumber |-> request.buyerContactNumber,
     status |-> "PENDING",
     orderStatus |-> "PENDING",
     amount |-> amountInCents(totalAmount),
     currency |-> "COP",
     paymentProvider |-> "WOMPI",
     externalReference |-> externalReference,
     preferenceId |-> EmptyId,
     wompiTransactionId |-> NullId,
     updatedAt |-> now]

\* Steps 1-3: validate the request, price the items, create the Purchase row.
\* A request failing validation throws here.
createPurchase(request) ==
    /\ call.pc = "idle"
    /\ LET v == validatePurchaseRequest(request)
           r == validateAndCalculateItems(request.items)
           totalAmount == reduceSum(r.items)
       IN  IF v # OK
               THEN /\ last' = Outcome("createPurchase", "ValidationError", v, <<>>, 0)
                    /\ UNCHANGED <<products, store, call, now>>
           ELSE IF r.kind # OK
               THEN /\ last' = Outcome("createPurchase", r.kind, r.msg, <<>>, 0)
                    /\ UNCHANGED <<products, store, call, now>>
           ELSE /\ \E k \in 1..NumRefTokens :
                       purchases' = Append(purchases,
                                           newPurchase(request, totalAmount, LocalRef(k)))
                /\ call' = [pc |-> "details", purchaseId |-> Len(purchases) + 1,
                            items |-> r.items, i |-> 1, totalAmount |-> totalAmount,
                            tx |-> NullId]
                /\ UNCHANGED <<products, orderDetails, nextDetailId, sessions, now, last>>

\* orderDetailDataSource.create for item i of the loop of step 4
newOrderDetail(purchaseId, item) ==
    [id |-> nextDetailId, purchaseId |-> purchaseId, productId |-> item.productId,
     quantity |-> item.quantity, unitPrice |-> item.unitPrice,
     totalPrice |-> item.totalPrice, selectedColor |-> item.selectedColor]

\* Step 4, one iteration: one OrderDetail per validated item, in cart order
createPurchase_orderDetail ==
    /\ call.pc = "details"
    /\ orderDetails' = orderDetails \cup {newOrderDetail(call.purchaseId, call.items[call.i])}
    /\ nextDetailId' = nextDetailId + 1
    /\ call' = [call EXCEPT !.i = @ + 1,
                            !.pc = IF call.i = Len(call.items) THEN "gateway" ELSE "details"]
    /\ UNCHANGED <<products, purchases, sessions, now, last>>

\* A variant of step 5 that does not wait for the line items: the session is
\* requested as soon as the Purchase row exists
createPurchase_paymentFirst ==
    /\ call.pc \in {"details", "gateway"}
    /\ LET wompiTransaction == createPayment(call.totalAmount)
       IN  /\ sessions' = Append(sessions, wompiTransaction)
           /\ call' = [call EXCEPT !.pc = "update", !.tx = wompiTransaction.transactionId]
    /\ UNCHANGED <<products, purchases, orderDetails, nextDetailId, now, last>>

\* Step 5: the payment session
createPurchase_payment ==
    /\ call.pc = "gateway"
    /\ LET wompiTransaction == createPayment(call.totalAmount)
       IN  /\ sessions' = Append(sessions, wompiTransaction)
           /\ call' = [call EXCEPT !.pc = "update", !.tx = wompiTransaction.transactionId]
    /\ UNCHANGED <<products, purchases, orderDetails, nextDetailId, now, last>>

\* A variant of step 6 that writes the whole row back as it was created, status included
createPurchase_updateRow ==
    /\ call.pc = "update"
    /\ purchases' = [purchases EXCEPT ![call.purchaseId].preferenceId = call.tx,
                                      ![call.purchaseId].wompiTransactionId = call.tx,
                                      ![call.purchaseId].status = "PENDING"]
    /\ last' = Outcome("createPurchase", OK, "",
                       [totalAmount |-> call.totalAmount, items |-> call.items,
                        wompiTransactionId |-> call.tx],
                       call.purchaseId)
    /\ call' = Idle
    /\ UNCHANGED <<products, orderDetails, nextDetailId, sessions, now>>

\* Step 6 and the return
createPurchase_update ==
    /\ call.pc = "update"
    /\ purchases' = [purchases EXCEPT ![call.purchaseId].preferenceId = call.tx,
                                      ![call.purchaseId].wompiTransactionId = call.tx]
    /\ last' = Outcome("createPurchase", OK, "",
                       [totalAmount |-> call.totalAmount, items |-> call.items,
                        wompiTransactionId |-> call.tx],
                       call.purchaseId)
    /\ call' = Idle
    /\ UNCHANGED <<products, orderDetails, nextDetailId, sessions, now>>

\* A variant of the failure that compensates: the Purchase row and its line items
\* are removed before the error is rethrown
createPurchase_rollback ==
    /\ call.pc \in {"details", "gateway", "update"}
    /\ purchases' = SubSeq(purchases, 1, call.purchaseId - 1)
    /\ orderDetails' = { d \in orderDetails : d.purchaseId # call.purchaseId }
    /\ last' = Outcome("createPurchase", "Error", call.pc, <<>>, call.purchaseId)
    /\ call' = Idle
    /\ UNCHANGED <<products, nextDetailId, sessions, now>>

\* A line-item write, the gateway call or the last update fails (or the process
\* dies): the catch block logs and rethrows, nothing is rolled back
createPurchase_throw ==
    /\ call.pc \in {"details", "gateway", "update"}
    /\ last' = Outcome("createPurchase", "Error", call.pc, <<>>, call.purchaseId)
    /\ call' = Idle
    /\ UNCHANGED <<products, store, now>>

----------------------------------------------------------------------------
(* WompiPurchaseService *)

WompiRequest(numbers, email, name, idNumber, contact, amount) ==
    [wallpaperNumbers |-> numbers, buyerEmail |-> email, buyerName |-> name,
     buyerIdentificationNumber |-> idNumber, buyerContactNumber |-> contact,
     amount |-> amount]

WompiRequests ==
    { WompiRequest(w, GoodEmail, GoodName, GoodIdNumber, GoodContact, a) :
        w \in { <<>>, <<7>>, <<7, 5000>>, <<7, 0>>, <<7, 5001>> },
        a \in { 0, 999, 1000, 2500 } }
    \cup { WompiRequest(<<7>>, e, GoodName, GoodIdNumber, GoodContact, 1000) :
              e \in BadEmails }
    \cup { WompiRequest(<<7>>, GoodEmail, n, GoodIdNumber, GoodContact, 1000) :
              n \in BadNames }
    \cup { WompiRequest(<<7>>, GoodEmail, GoodName, ShortIdNumber, GoodContact, 1000),
           WompiRequest(<<7>>, GoodEmail, GoodName, GoodIdNumber, ShortContact, 1000) }

\* WompiPurchaseService.validatePurchaseRequest: the message thrown, or OK
wompi_validatePurchaseRequest(request) ==
    IF Len(request.wallpaperNumbers) = 0 THEN "At least one wallpaper number is required"
    ELSE IF \E i \in 1..Len(request.wallpaperNumbers) :
                request.wallpaperNumbers[i] <= 0 \/ request.wallpaperNumbers[i] > 5000
        THEN "Wallpaper number must be between 1 and 5000"
    ELSE IF ~emailRegexTest(request.buyerEmail) THEN "Invalid email format"
    ELSE IF Len(request.buyerName) = 0 \/ Len(trim(request.buyerName)) < 2
        THEN "Buyer name must be at least 2 characters long"
    ELSE IF Len(request.buyerIdentificationNumber) < 6
        THEN "Identification number must be at least 6 characters long"
    ELSE IF Len(request.buyerContactNumber) < 10
        THEN "Contact number must be at least 10 characters long"
    ELSE IF request.amount <= 0 THEN "Amount must be greater than 0"
    ELSE IF request.amount < 1000 THEN "Amount must be at least 1000 COP"
    ELSE OK

\* A variant that stores the amount in minor units, as PurchaseService does
wompi_newPurchaseInCents(request, wompiPayment) ==
    [id |-> Len(purchases) + 1,
     buyerEmail |-> request.buyerEmail,
     buyerName |-> request.buyerName,
     buyerIdentificationNumber |-> request.buyerIdentificationNumber,
     buyerContactNumber |-> request.buyerContactNumber,
     status |-> "PENDING",
     orderStatus |-> "PENDING",
     amount |-> request.amount * 100,
     currency |-> "COP",
     paymentProvider |-> "WOMPI",
     externalReference |-> wompiPayment.reference,
     preferenceId |-> wompiPayment.reference,
     wompiTransactionId |-> wompiPayment.reference,
     updatedAt |-> now]

\* prisma.purchase.create of WompiPurchaseService.createPurchase
wompi_newPurchase(request, wompiPayment) ==
    [id |-> Len(purchases) + 1,
     buyerEmail |-> request.buyerEmail,
     buyerName |-> request.buyerName,
     buyerIdentificationNumber |-> request.buyerIdentificationNumber,
     buyerContactNumber |-> request.buyerContactNumber,
     status |-> "PENDING",
     orderStatus |-> "PENDING",
     amount |-> request.amount,
     currency |-> "COP",
     paymentProvider |-> "WOMPI",
     externalReference |-> wompiPayment.reference,
     preferenceId |-> wompiPayment.reference,
     wompiTransactionId |-> wompiPayment.reference,
     updatedAt |-> now]

\* WompiPurchaseService.createPurchase: validate, create the payment, save the purchase
wompi_createPurchase(request) ==
    LET v == wompi_validatePurchaseRequest(request)
        wompiPayment == createPayment(request.amount)
    IN  IF v # OK
            THEN /\ last' = Outcome("wompi.createPurchase", "ValidationError", v, <<>>, 0)
                 /\ UNCHANGED <<products, store, call, now>>
        ELSE /\ sessions' = Append(sessions, wompiPayment)
             /\ purchases' = Append(purchases, wompi_newPurchase(request, wompiPayment))
             /\ last' = Outcome("wompi.createPurchase", OK, "",
                                [reference |-> wompiPayment.reference],
                                Len(purchases) + 1)
             /\ UNCHANGED <<products, orderDetails, nextDetailId, call, now>>

\* The gateway call of WompiPurchaseService.createPurchase throws: nothing was written
wompi_createPurchase_gatewayThrows(request) ==
    /\ wompi_validatePurchaseRequest(request) = OK
    /\ last' = Outcome("wompi.createPurchase", "Error", "gateway", <<>>, 0)
    /\ UNCHANGED <<products, store, call, now>>

\* prisma.purchase.updateMany({where: {externalReference: reference}, data: {...}})
updateManyByReference(reference, status) ==
    [id \in PurchaseIds |->
        IF purchases[id].externalReference = reference
            THEN [purchases[id] EXCEPT !.status = status, !.updatedAt = now]
            ELSE purchases[id]]

\* WompiPurchaseService.updatePurchaseStatusByReference
updatePurchaseStatusByReference(reference, status) ==
    /\ purchases' = updateManyByReference(reference, status)
    /\ last' = Outcome("updatePurchaseStatusByReference", OK, "", <<>>, 0)
    /\ UNCHANGED <<products, orderDetails, nextDetailId, sessions, call, now>>

----------------------------------------------------------------------------
(* PurchaseService.updatePaymentStatus *)

\* prisma.purchase.findFirst({where: {wompiTransactionId}}): the rows it may return
\* (no orderBy: which of several matching rows comes first is the database's choice)
findFirstByTransactionId(wompiTransactionId) ==
    { id \in PurchaseIds : purchases[id].wompiTransactionId = wompiTransactionId }

\* prisma.purchase.findFirst({where: {externalReference}})
findFirstByReference(externalReference) ==
    { id \in PurchaseIds : purchases[id].externalReference = externalReference }

\* A variant that consults the reference before the transaction id
lookupReferenceFirst(wompiTransactionId, externalReference) ==
    IF Truthy(externalReference) /\ findFirstByReference(externalReference) # {}
        THEN findFirstByReference(externalReference)
    ELSE findFirstByTransactionId(wompiTransactionId)

\* The lookup of updatePaymentStatus: by transaction id, then, on a miss and with a
\* reference given, by externalReference
lookupPurchase(wompiTransactionId, externalReference) ==
    IF findFirstByTransactionId(wompiTransactionId) # {}
        THEN findFirstByTransactionId(wompiTransactionId)
    ELSE IF Truthy(externalReference)
        THEN findFirstByReference(externalReference)
    ELSE {}

\* A variant that also overwrites preferenceId
statusUpdateAndPreference(purchase, status, wompiTransactionId) ==
    [purchase EXCEPT !.status = status,
                     !.wompiTransactionId = wompiTransactionId,
                     !.preferenceId = wompiTransactionId,
                     !.updatedAt = now]

\* prisma.purchase.update of updatePaymentStatus
statusUpdate(purchase, status, wompiTransactionId) ==
    [purchase EXCEPT !.status = status,
                     !.wompiTransactionId = wompiTransactionId,
                     !.updatedAt = now]

updatePaymentStatus(wompiTransactionId, status, externalReference) ==
    LET found == lookupPurchase(wompiTransactionId, externalReference)
    IN  IF found = {}
            THEN /\ last' = Outcome("updatePaymentStatus", OK, "Purchase not found", <<>>, 0)
                 /\ UNCHANGED <<products, store, call, now>>
        ELSE \E id \in found :
                /\ purchases' = [purchases EXCEPT
                                   ![id] = statusUpdate(@, status, wompiTransactionId)]
                /\ last' = Outcome("updatePaymentStatus", OK, "", <<>>, id)
                /\ UNCHANGED <<products, orderDetails, nextDetailId, sessions, call, now>>

\* Identifiers a caller can know of: those the gateway issued, those stored, and
\* (as a transaction id) one that belongs to nothing
TransactionIdInputs ==
    { sessions[k].transactionId : k \in 1..Len(sessions) }
    \cup ({ purchases[id].wompiTransactionId : id \in PurchaseIds } \ {NullId})
    \cup {UnknownId}

ReferenceInputs ==
    { sessions[k].reference : k \in 1..Len(sessions) }
    \cup { purchases[id].externalReference : id \in PurchaseIds }
    \cup {NullId, EmptyId}

----------------------------------------------------------------------------
(* PurchaseService.updatePurchase *)

\* An optional string field of a patch: absent (undefined), or a string
Absent == [present |-> FALSE, value |-> <<>>]
Given(value) == [present |-> TRUE, value |-> value]

\* JavaScript truthiness of an optional string: present and not ''
truthy(field) == field.present /\ Len(field.value) > 0

Patch(email, name, contact) ==
    [buyerEmail |-> email, buyerName |-> name, buyerContactNumber |-> contact]

UpdatePurchasePatches ==
    { Patch(Given(OtherEmail), Absent, Absent),
      Patch(Absent, Given(PaddedName), Absent),
      Patch(Absent, Absent, Given(ShortContact)),
      Patch(Given(OtherEmail), Given(PaddedName), Given(ShortContact)),
      Patch(Absent, Absent, Absent),
      Patch(Given(<<"a", "@", "b">>), Absent, Given(ShortContact)),
      Patch(Given(<<"a", "b", ".", "c">>), Given(PaddedName), Absent),
      Patch(Absent, Given(<<" ", "A", " ">>), Given(ShortContact)),
      Patch(Given(OtherEmail), Given(<<" ", " ", " ">>), Absent),
      Patch(Given(<<>>), Given(PaddedName), Absent),
      Patch(Given(OtherEmail), Given(<<>>), Absent) }

\* A variant that does not check the name
validateUpdateEmailOnly(updateData) ==
    IF truthy(updateData.buyerEmail) /\ ~emailRegexTest(updateData.buyerEmail.value)
        THEN "Invalid email format"
    ELSE OK

\* The validation of updatePurchase: the message of the Error thrown, or OK
validateUpdate(updateData) ==
    IF truthy(updateData.buyerEmail) /\ ~emailRegexTest(updateData.buyerEmail.value)
        THEN "Invalid email format"
    ELSE IF truthy(updateData.buyerName) /\ Len(trim(updateData.buyerName.value)) < 2
        THEN "Buyer name must be at least 2 characters long"
    ELSE OK

\* dataToUpdate applied by prisma.purchase.update
applyUpdate(purchase, updateData) ==
    [purchase EXCEPT
        !.updatedAt = now,
        !.buyerEmail = IF truthy(updateData.buyerEmail)
                           THEN updateData.buyerEmail.value ELSE @,
        !.buyerName = IF truthy(updateData.buyerName)
                          THEN trim(updateData.buyerName.value) ELSE @,
        !.buyerContactNumber = IF truthy(updateData.buyerContactNumber)
                                   THEN updateData.buyerContactNumber.value ELSE @]

updatePurchase(purchaseId, updateData) ==
    LET v == validateUpdate(updateData)
    IN  IF purchaseId \notin PurchaseIds
            THEN /\ last' = Outcome("updatePurchase", "Error", "Purchase not found", <<>>, 0)
                 /\ UNCHANGED <<products, store, call, now>>
        ELSE IF v # OK
            THEN /\ last' = Outcome("updatePurchase", "Error", v, <<>>, 0)
                 /\ UNCHANGED <<products, store, call, now>>
        ELSE /\ purchases' = [purchases EXCEPT ![purchaseId] = applyUpdate(@, updateData)]
             /\ last' = Outcome("updatePurchase", OK, "", <<>>, purchaseId)
             /\ UNCHANGED <<products, orderDetails, nextDetailId, sessions, call, now>>

----------------------------------------------------------------------------
(* OrderDetailPrismaAdapter *)

\* An optional numeric field of Partial<OrderDetail>
NoNumber == [present |-> FALSE, value |-> 0]
Number(value) == [present |-> TRUE, value |-> value]

\* The optional selectedColor of Partial<OrderDetail>
NoColor == [present |-> FALSE, value |-> ""]
Color(value) == [present |-> TRUE, value |-> value]

Partial(quantity, unitPrice, totalPrice, selectedColor) ==
    [quantity |-> quantity, unitPrice |-> unitPrice, totalPrice |-> totalPrice,
     selectedColor |-> selectedColor]

OrderDetailPatches ==
    { Partial(Number(0), NoNumber, NoNumber, NoColor),
      Partial(Number(-1), NoNumber, NoNumber, NoColor),
      Partial(NoNumber, NoNumber, Number(100), NoColor),
      Partial(Number(1), Number(5000), Number(5000), Color("red")),
      Partial(NoNumber, NoNumber, NoNumber, NoColor) }

\* The rows OrderDetailPrismaAdapter.create is called with from outside createPurchase
OrderDetailInputs ==
    { [purchaseId |-> p, productId |-> 1, quantity |-> q, unitPrice |-> 5000,
       totalPrice |-> t, selectedColor |-> ""] :
        p \in 1..(MaxPurchases + 1), q \in {0, 1}, t \in {5000} }

\* OrderDetailPrismaAdapter.create: the foreign keys of order_details must resolve
orderDetail_create(orderDetail) ==
    IF orderDetail.purchaseId \notin PurchaseIds \/ orderDetail.productId \notin DOMAIN products
        THEN /\ last' = Outcome("orderDetail.create", "Error", "foreign key", <<>>, 0)
             /\ UNCHANGED <<products, store, call, now>>
    ELSE /\ orderDetails' = orderDetails \cup {[id |-> nextDetailId] @@ orderDetail}
         /\ nextDetailId' = nextDetailId + 1
         /\ last' = Outcome("orderDetail.create", OK, "", <<>>, nextDetailId)
         /\ UNCHANGED <<products, purchases, sessions, call, now>>

\* The data of OrderDetailPrismaAdapter.update: quantity is written when truthy, the
\* other fields when not undefined
applyPartial(row, orderDetail) ==
    [row EXCEPT
        !.quantity = IF orderDetail.quantity.present /\ orderDetail.quantity.value # 0
                         THEN orderDetail.quantity.value ELSE @,
        !.unitPrice = IF orderDetail.unitPrice.present
                          THEN orderDetail.unitPrice.value ELSE @,
        !.totalPrice = IF orderDetail.totalPrice.present
                           THEN orderDetail.totalPrice.value ELSE @,
        !.selectedColor = IF orderDetail.selectedColor.present
                              THEN orderDetail.selectedColor.value ELSE @]

\* OrderDetailPrismaAdapter.update: null when no row has the id
orderDetail_update(id, orderDetail) ==
    IF \A d \in orderDetails : d.id # id
        THEN /\ last' = Outcome("orderDetail.update", "null", "", <<>>, id)
             /\ UNCHANGED <<products, store, call, now>>
    ELSE /\ orderDetails' = { IF d.id = id THEN applyPartial(d, orderDetail) ELSE d :
                                d \in orderDetails }
         /\ last' = Outcome("orderDetail.update", OK, "", <<>>, id)
         /\ UNCHANGED <<products, purchases, nextDetailId, sessions, call, now>>

\* A variant of delete that also removes the other line items of the row's purchase
deletePurchaseRows(id) ==
    IF \A d \in orderDetails : d.id # id
        THEN /\ last' = Outcome("orderDetail.delete", "false", "", <<>>, id)
             /\ UNCHANGED <<products, store, call, now>>
    ELSE /\ orderDetails' = { d \in orderDetails :
                                \A e \in orderDetails : e.id = id => d.purchaseId # e.purchaseId }
         /\ last' = Outcome("orderDetail.delete", "true", "", <<>>, id)
         /\ UNCHANGED <<products, purchases, nextDetailId, sessions, call, now>>

\* OrderDetailPrismaAdapter.delete: false when no row has the id
orderDetail_delete(id) ==
    IF \A d \in orderDetails : d.id # id
        THEN /\ last' = Outcome("orderDetail.delete", "false", "", <<>>, id)
             /\ UNCHANGED <<products, store, call, now>>
    ELSE /\ orderDetails' = { d \in orderDetails : d.id # id }
         /\ last' = Outcome("orderDetail.delete", "true", "", <<>>, id)
         /\ UNCHANGED <<products, purchases, nextDetailId, sessions, call, now>>

DetailIdInputs == 1..(MaxDetailId + 1)

----------------------------------------------------------------------------
(* Environment: the catalog and the clock *)

PriceInputs == {5000, 6000}

\* The catalog price of a product changes (product data source, outside this core)
changePrice(productId, price) ==
    /\ products[productId].price # price
    /\ products' = [products EXCEPT ![productId].price = price]
    /\ UNCHANGED <<store, call, now, last>>

Tick ==
    /\ now < MaxTime
    /\ now' = now + 1
    /\ UNCHANGED <<products, store, call, last>>

----------------------------------------------------------------------------
(* PurchaseService: reports and email *)

\* A variant that compares the status as stored
keepCase(status) == status

\* String.prototype.toUpperCase on the status strings of the model
toUpperCase(status) ==
    CASE status = "approved" -> "APPROVED"
      [] status = "Completed" -> "COMPLETED"
      [] OTHER -> status

\* The statuses the reporting specification delivers: a status may arrive in any case
ReportStatuses == {"PENDING", "APPROVED", "COMPLETED", "approved"}

\* include: {orderDetails: {include: {product}}}: the product joined to a line item
joinedProduct(detail) == getById(detail.productId)

\* detail.product?.name || 'Unknown Product'
productNameOf(product) ==
    IF product = NullProduct \/ product.name = "" THEN "Unknown Product" ELSE product.name

\* emailData of resendEmailForPurchase
emailData(purchase) ==
    [buyerEmail |-> purchase.buyerEmail,
     buyerName |-> purchase.buyerName,
     items |-> { [productName |-> productNameOf(joinedProduct(d)),
                  quantity |-> d.quantity, unitPrice |-> d.unitPrice,
                  totalPrice |-> d.totalPrice] : d \in detailsOf(purchase.id) },
     totalAmount |-> purchase.amount,
     status |-> purchase.status,
     paymentId |-> IF Truthy(purchase.wompiTransactionId)
                       THEN purchase.wompiTransactionId ELSE EmptyId]

\* PurchaseService.resendEmailForPurchase; last.value is what was handed to
\* emailService.sendPaymentConfirmationEmail, one entry per invocation
resendEmailForPurchase(purchaseId) ==
    /\ IF purchaseId \notin PurchaseIds
           THEN last' = Outcome("resendEmailForPurchase", "Error", "Purchase not found",
                                <<>>, 0)
       ELSE IF toUpperCase(purchases[purchaseId].status) \notin {"APPROVED", "COMPLETED"}
           THEN last' = Outcome("resendEmailForPurchase", "Error", "Cannot resend email",
                                <<>>, purchaseId)
       ELSE last' = Outcome("resendEmailForPurchase", OK,
                            "Payment confirmation email resent successfully",
                            <<emailData(purchases[purchaseId])>>, purchaseId)
    /\ UNCHANGED <<products, store, call, now>>

\* statistics of generateBackupData before the loop
emptyStatistics ==
    [totalPurchases |-> Len(purchases), approvedCount |-> 0, completedCount |-> 0,
     pendingCount |-> 0, cancelledCount |-> 0, rejectedCount |-> 0, failedCount |-> 0,
     totalRevenue |-> 0, uniqueProductsSold |-> 0]

\* A variant that counts every purchase as revenue
countAsRevenue(acc, purchase) ==
    [statistics |-> [acc.statistics EXCEPT !.totalRevenue = @ + purchase.amount],
     soldProducts |-> acc.soldProducts \cup { d.productId : d \in detailsOf(purchase.id) }]

\* One iteration of the loop of generateBackupData: the switch on the status
countPurchase(acc, purchase) ==
    LET status == toUpperCase(purchase.status)
        sold == { d.productId : d \in detailsOf(purchase.id) }
        st == acc.statistics
    IN  CASE status = "APPROVED" ->
               [statistics |-> [st EXCEPT !.approvedCount = @ + 1,
                                          !.totalRevenue = @ + purchase.amount],
                soldProducts |-> acc.soldProducts \cup sold]
          [] status = "COMPLETED" ->
               [statistics |-> [st EXCEPT !.completedCount = @ + 1,
                                          !.totalRevenue = @ + purchase.amount],
                soldProducts |-> acc.soldProducts \cup sold]
          [] status = "PENDING" ->
               [acc EXCEPT !.statistics.pendingCount = @ + 1]
          [] status = "CANCELLED" ->
               [acc EXCEPT !.statistics.cancelledCount = @ + 1]
          [] status = "REJECTED" ->
               [acc EXCEPT !.statistics.rejectedCount = @ + 1]
          [] status = "FAILED" ->
               [acc EXCEPT !.statistics.failedCount = @ + 1]
          [] OTHER -> acc

RECURSIVE countFrom(_, _)
\* for (const purchase of purchases), the rows ordered by createdAt descending
countFrom(i, acc) ==
    IF i = 0 THEN acc ELSE countFrom(i - 1, countPurchase(acc, purchases[i]))

\* PurchaseService.generateBackupData: the statistics it returns
generateBackupData ==
    /\ LET acc == countFrom(Len(purchases),
                            [statistics |-> emptyStatistics, soldProducts |-> {}])
       IN  last' = Outcome("generateBackupData", OK, "",
                           [acc.statistics EXCEPT
                               !.uniqueProductsSold = Cardinality(acc.soldProducts)],
                           0)
    /\ UNCHANGED <<products, store, call, now>>

\* The items of a FormattedPurchase: one per line item, with the product's name
formatItem(detail, product) ==
    [productId |-> detail.productId,
     productName |-> productNameOf(product),
     quantity |-> detail.quantity,
     unitPrice |-> detail.unitPrice,
     totalPrice |-> detail.totalPrice,
     selectedColor |-> detail.selectedColor]

\* purchases.map((purchase) => ({...})) of getPurchasesByEmail
formatPurchase(purchase) ==
    [id |-> purchase.id,
     buyerEmail |-> purchase.buyerEmail,
     status |-> purchase.status,
     amount |-> purchase.amount,
     items |-> { formatItem(d, joinedProduct(d)) : d \in detailsOf(purchase.id) },
     updatedAt |-> purchase.updatedAt]

\* The orders in which a query can return the given rows, each row once
orderings(ids) ==
    { q \in SeqsUpTo(ids, Cardinality(ids)) :
        /\ Len(q) = Cardinality(ids)
        /\ \A i, j \in 1..Len(q) : i # j => q[i] # q[j] }

\* A variant that returns the matching rows in any order
findManyUnordered(email) ==
    orderings({ id \in PurchaseIds : purchases[id].buyerEmail = email })

\* prisma.purchase.findMany({where: {buyerEmail: email}, orderBy: {updatedAt: 'desc'}}):
\* the orders it may return (rows with equal updatedAt come in either order)
findManyByEmail(email) ==
    { q \in orderings({ id \in PurchaseIds : purchases[id].buyerEmail = email }) :
        \A i, j \in 1..Len(q) :
            i < j => purchases[q[i]].updatedAt >= purchases[q[j]].updatedAt }

\* PurchaseService.getPurchasesByEmail
getPurchasesByEmail(email) ==
    /\ \E q \in findManyByEmail(email) :
          last' = Outcome("getPurchasesByEmail", OK, "",
                          [i \in 1..Len(q) |-> formatPurchase(purchases[q[i]])], 0)
    /\ UNCHANGED <<products, store, call, now>>

\* The addresses the query is made with
EmailInputs == {GoodEmail, OtherEmail, <<"a", "@", "b">>}

----------------------------------------------------------------------------

----------------------------------------------------------------------------
(* Specifications.  Each takes the operations its claims are about, on top of the  *)
(* operations that create purchases, and keeps the tables within the bounds.       *)

GoodRequest == Request(GoodEmail, GoodName, GoodIdNumber, GoodContact, <<Item(1, 2, "")>>)
GoodWompiRequest ==
    WompiRequest(<<7>>, GoodEmail, GoodName, GoodIdNumber, GoodContact, 1000)

Within(maxPurchases) ==
    /\ Len(purchases') <= maxPurchases
    /\ nextDetailId' <= MaxDetailId + 1

\* Purchase creation with every request: validation, pricing, the write sequence
NextCreate ==
    \/ \E request \in CreatePurchaseRequests : createPurchase(request) /\ Within(MaxCreated)
    \/ createPurchase_orderDetail /\ Within(MaxCreated)
    \/ createPurchase_payment
    \/ createPurchase_update
    \/ createPurchase_throw
    \/ \E productId \in {1} : \E price \in PriceInputs : changePrice(productId, price)

SpecCreate == Init /\ [][NextCreate]_vars

\* The purchases WompiPurchaseService made: their reference is the gateway's
wompiPurchases ==
    { id \in PurchaseIds : purchases[id].externalReference = purchases[id].preferenceId }

\* One more purchase of each service fits
RoomForCreated == Cardinality(PurchaseIds \ wompiPurchases) < MaxCreated
RoomForWompi == Cardinality(wompiPurchases) < MaxWompi

\* Payment reconciliation: a purchase of each service, webhook deliveries, the clock
NextReconcile ==
    \/ \E request \in {GoodRequest} :
          createPurchase(request) /\ Within(MaxPurchases) /\ RoomForCreated
    \/ createPurchase_orderDetail /\ Within(MaxPurchases)
    \/ createPurchase_payment
    \/ createPurchase_update
    \/ createPurchase_throw
    \/ \E request \in {GoodWompiRequest} :
          wompi_createPurchase(request) /\ Within(MaxPurchases) /\ RoomForWompi
    \/ \E wompiTransactionId \in TransactionIdInputs, status \in DeliveredStatuses,
          externalReference \in ReferenceInputs :
          updatePaymentStatus(wompiTransactionId, status, externalReference)
    \/ Tick

SpecReconcile == Init /\ [][NextReconcile]_vars

\* Status updates by reference: purchases of both services, the clock
NextReference ==
    \/ \E request \in {GoodRequest} : createPurchase(request) /\ Within(MaxPurchases)
    \/ createPurchase_orderDetail /\ Within(MaxPurchases)
    \/ createPurchase_payment
    \/ createPurchase_update
    \/ createPurchase_throw
    \/ \E request \in {GoodWompiRequest} :
          wompi_createPurchase(request) /\ Within(MaxPurchases) /\ RoomForWompi
    \/ \E reference \in ReferenceInputs, status \in DeliveredStatuses :
          updatePurchaseStatusByReference(reference, status)
    \/ Tick

SpecReference == Init /\ [][NextReference]_vars

\* Buyer corrections: a purchase of each service, every patch
NextBuyer ==
    \/ \E request \in {GoodRequest} :
          createPurchase(request) /\ Within(MaxPurchases) /\ RoomForCreated
    \/ createPurchase_orderDetail /\ Within(MaxPurchases)
    \/ createPurchase_payment
    \/ createPurchase_update
    \/ createPurchase_throw
    \/ \E request \in {GoodWompiRequest} :
          wompi_createPurchase(request) /\ Within(MaxPurchases) /\ RoomForWompi
    \/ \E purchaseId \in 1..(MaxPurchases + 1), updateData \in UpdatePurchasePatches :
          updatePurchase(purchaseId, updateData)

SpecBuyer == Init /\ [][NextBuyer]_vars

\* Line items: a purchase of each service, the adapter's operations, price changes
NextDetails ==
    \/ \E request \in {GoodRequest} :
          createPurchase(request) /\ Within(MaxPurchases) /\ RoomForCreated
    \/ createPurchase_orderDetail /\ Within(MaxPurchases)
    \/ createPurchase_payment
    \/ createPurchase_update
    \/ createPurchase_throw
    \/ \E request \in {GoodWompiRequest} :
          wompi_createPurchase(request) /\ Within(MaxPurchases) /\ RoomForWompi
    \/ \E orderDetail \in OrderDetailInputs :
          orderDetail_create(orderDetail) /\ Within(MaxPurchases)
    \/ \E id \in DetailIdInputs, orderDetail \in OrderDetailPatches :
          orderDetail_update(id, orderDetail)
    \/ \E id \in DetailIdInputs : orderDetail_delete(id)
    \/ \E productId \in {1} : \E price \in PriceInputs : changePrice(productId, price)

SpecDetails == Init /\ [][NextDetails]_vars

TwoItemRequest ==
    Request(GoodEmail, GoodName, GoodIdNumber, GoodContact,
            <<Item(1, 1, "red"), Item(2, 1, "")>>)

\* Reports and email: purchases of both services, status updates in any case
NextReports ==
    \/ \E request \in {GoodRequest, TwoItemRequest} :
          createPurchase(request) /\ Within(MaxPurchases)
    \/ createPurchase_orderDetail /\ Within(MaxPurchases)
    \/ createPurchase_payment
    \/ createPurchase_update
    \/ createPurchase_throw
    \/ \E request \in {GoodWompiRequest} :
          wompi_createPurchase(request) /\ Within(MaxPurchases) /\ RoomForWompi
    \/ \E reference \in ReferenceInputs, status \in ReportStatuses :
          updatePurchaseStatusByReference(reference, status)
    \/ \E purchaseId \in 1..(MaxPurchases + 1) : resendEmailForPurchase(purchaseId)
    \/ generateBackupData

SpecReports == Init /\ [][NextReports]_vars

\* Queries by email: two purchases, patches that touch them, the clock
NextQuery ==
    \/ \E request \in {GoodRequest} : createPurchase(request) /\ Within(MaxPurchases)
    \/ createPurchase_orderDetail /\ Within(MaxPurchases)
    \/ createPurchase_payment
    \/ createPurchase_update
    \/ \E purchaseId \in 1..MaxPurchases,
          updateData \in { Patch(Absent, Absent, Absent),
                           Patch(Given(OtherEmail), Absent, Absent) } :
          updatePurchase(purchaseId, updateData)
    \/ \E email \in EmailInputs : getPurchasesByEmail(email)
    \/ Tick

SpecQuery == Init /\ [][NextQuery]_vars

\* The adapter alone: a purchase with its line item, and the adapter's operations
NextAdapter ==
    \/ \E request \in {GoodRequest} :
          createPurchase(request) /\ Within(MaxPurchases) /\ RoomForCreated
    \/ createPurchase_orderDetail /\ Within(MaxPurchases)
    \/ createPurchase_payment
    \/ createPurchase_update
    \/ \E orderDetail \in OrderDetailInputs :
          orderDetail_create(orderDetail) /\ Within(MaxPurchases)
    \/ \E id \in DetailIdInputs, orderDetail \in OrderDetailPatches :
          orderDetail_update(id, orderDetail)
    \/ \E id \in DetailIdInputs : orderDetail_delete(id)

SpecAdapter == Init /\ [][NextAdapter]_vars

\* The webhook the gateway sends for session k: its transaction id, and its own
\* reference as the context's externalReference
webhook(k, status) ==
    updatePaymentStatus(sessions[k].transactionId, status, sessions[k].reference)

\* Webhook deliveries for the sessions the gateway created, while purchases are made
NextWebhook ==
    \/ \E request \in {GoodRequest, TwoItemRequest} :
          createPurchase(request) /\ Within(MaxPurchases)
    \/ createPurchase_orderDetail /\ Within(MaxPurchases)
    \/ createPurchase_payment
    \/ createPurchase_update
    \/ createPurchase_throw
    \/ \E k \in 1..Len(sessions), status \in DeliveredStatuses : webhook(k, status)
    \/ Tick

SpecWebhook == Init /\ [][NextWebhook]_vars

\* The patches of the concurrent-writer specification: a touch, an email, a name
StatusPatches ==
    { Patch(Absent, Absent, Absent),
      Patch(Given(OtherEmail), Absent, Absent),
      Patch(Absent, Given(GoodName), Absent) }

\* Concurrent writers of one purchase: its creation, status updates, buyer corrections
NextStatus ==
    \/ \E request \in {GoodRequest} :
          createPurchase(request) /\ Within(MaxPurchases) /\ RoomForCreated
    \/ createPurchase_orderDetail /\ Within(MaxPurchases)
    \/ createPurchase_payment
    \/ createPurchase_update
    \/ createPurchase_throw
    \/ \E request \in {GoodWompiRequest} :
          wompi_createPurchase(request) /\ Within(MaxPurchases) /\ RoomForWompi
    \/ \E wompiTransactionId \in TransactionIdInputs, status \in DeliveredStatuses,
          externalReference \in ReferenceInputs :
          updatePaymentStatus(wompiTransactionId, status, externalReference)
    \/ \E reference \in ReferenceInputs, status \in DeliveredStatuses :
          updatePurchaseStatusByReference(reference, status)
    \/ \E purchaseId \in 1..MaxPurchases, updateData \in StatusPatches :
          updatePurchase(purchaseId, updateData)

SpecStatus == Init /\ [][NextStatus]_vars

\* WompiPurchaseService alone: every request, gateway failures, status updates, the clock
NextWompi ==
    \/ \E request \in WompiRequests : wompi_createPurchase(request) /\ Within(MaxPurchases)
    \/ \E request \in WompiRequests : wompi_createPurchase_gatewayThrows(request)
    \/ \E reference \in ReferenceInputs, status \in DeliveredStatuses :
          updatePurchaseStatusByReference(reference, status)
    \/ Tick

SpecWompi == Init /\ [][NextWompi]_vars

\* The statuses delivered to the status updates of the backup specification: the
\* status parameter is any string
BackupStatuses == {"PENDING", "APPROVED", "DECLINED"}

\* Backups: a purchase of each service, status updates of both kinds, the backup
NextBackup ==
    \/ \E request \in {GoodRequest} :
          createPurchase(request) /\ Within(MaxPurchases) /\ RoomForCreated
    \/ createPurchase_orderDetail /\ Within(MaxPurchases)
    \/ createPurchase_payment
    \/ createPurchase_update
    \/ createPurchase_throw
    \/ \E request \in {GoodWompiRequest} :
          wompi_createPurchase(request) /\ Within(MaxPurchases) /\ RoomForWompi
    \/ \E wompiTransactionId \in TransactionIdInputs, status \in BackupStatuses,
          externalReference \in ReferenceInputs :
          updatePaymentStatus(wompiTransactionId, status, externalReference)
    \/ \E reference \in ReferenceInputs, status \in BackupStatuses :
          updatePurchaseStatusByReference(reference, status)
    \/ generateBackupData

SpecBackup == Init /\ [][NextBackup]_vars

----------------------------------------------------------------------------
(* Claims about purchase creation (SpecCreate) *)

\* What the specification requires of a request, stated on the inputs themselves
MalformedBuyer(request) ==
    \/ request.buyerEmail \in BadEmails
    \/ request.buyerName \in BadNames
    \/ Len(request.buyerIdentificationNumber) < 6
    \/ Len(request.buyerContactNumber) < 10

\* The colors a product with well-formed colors data offers: its list, or none when
\* the data is absent
OfferedColors(productId) ==
    IF products[productId].colors.kind = "list"
        THEN { products[productId].colors.list[i] :
                 i \in 1..Len(products[productId].colors.list) }
        ELSE {}

BadItem(item) ==
    \/ item.quantity <= 0
    \/ item.productId \notin DOMAIN products
    \/ products[item.productId].status # "available"
    \/ /\ item.selectedColor # ""
       /\ products[item.productId].colors.kind # "malformed"
       /\ item.selectedColor \notin OfferedColors(item.productId)

FailsValidation(request) ==
    \/ Len(request.items) = 0
    \/ MalformedBuyer(request)
    \/ \E i \in 1..Len(request.items) : BadItem(request.items[i])

NoWrite == UNCHANGED <<purchases, orderDetails, nextDetailId, sessions, call>>

\* C1: a createPurchase whose request fails validation (empty cart, malformed buyer
\* field, or a bad item at any position) writes nothing, calls no gateway, and fails
\* with a ValidationError.
C1_RejectedWithValidationError ==
    [][ \A request \in CreatePurchaseRequests :
          (createPurchase(request) /\ FailsValidation(request))
              => (NoWrite /\ last'.op = "createPurchase"
                          /\ last'.result = "ValidationError") ]_vars

\* The part of C1 the code keeps: a step either writes nothing and ends in a thrown
\* error, or it is not a createPurchase of a request that fails validation.
C1_RejectedWritesNothing ==
    [][ \/ NoWrite /\ last'.op = "createPurchase" /\ last'.result # OK
        \/ ~ \E request \in CreatePurchaseRequests :
                createPurchase(request) /\ FailsValidation(request) ]_vars

\* A call was rejected for a bad item while a purchase is already stored
C1_Witness ==
    /\ last.op = "createPurchase"
    /\ last.result = "ValidationError"
    /\ last.msg = "Product is not available"
    /\ Len(purchases) = 1

RECURSIVE ExpectedTotal(_)
\* The sum over the cart of (catalog price now) x quantity, in hundredths
ExpectedTotal(items) ==
    IF Len(items) = 0 THEN 0
    ELSE products[Head(items).productId].price * Head(items).quantity
         + ExpectedTotal(Tail(items))

\* C2: for a valid cart the total is the sum of catalog price x quantity at the time
\* of the call, the Purchase row is created with amount = round(total x 100) (the
\* total in hundredths), and that total is the totalAmount the call returns.
C2_TotalAndAmount ==
    [][ /\ Len(purchases') > Len(purchases)
              => \A request \in CreatePurchaseRequests :
                    createPurchase(request)
                        => /\ ~FailsValidation(request)
                           /\ call'.totalAmount = ExpectedTotal(request.items)
                           /\ purchases'[Len(purchases')].amount
                                  = ExpectedTotal(request.items)
        /\ createPurchase_update
              => /\ last'.result = OK
                 /\ last'.value.totalAmount = call.totalAmount
                 /\ purchases'[call.purchaseId].amount = call.totalAmount ]_vars

\* The example of the specification: quantity 2 at 50.00 gives total 100.00, amount
\* 10000 and one line item of 100.00
C2_Witness ==
    /\ last.op = "createPurchase"
    /\ last.result = OK
    /\ last.value.totalAmount = 10000
    /\ purchases[last.target].amount = 10000
    /\ \E d \in orderDetails :
          /\ detailsOf(last.target) = {d}
          /\ d.quantity = 2 /\ d.unitPrice = 5000 /\ d.totalPrice = 10000

----------------------------------------------------------------------------
(* Claims about payment reconciliation (SpecReconcile) *)

\* The purchases whose row differs between the two states of a step
Changed == { id \in PurchaseIds : purchases'[id] # purchases[id] }

MatchesTransaction(transactionId) ==
    { id \in PurchaseIds : purchases[id].wompiTransactionId = transactionId }

\* No purchase stores the empty string as its reference, so an absent (null) or empty
\* context reference matches nothing
MatchesReference(reference) ==
    { id \in PurchaseIds : reference # NullId /\ purchases[id].externalReference = reference }

\* C5: updatePaymentStatus modifies a purchase only if it has the transaction id or,
\* when no purchase has it, the context's externalReference; it modifies at most one
\* purchase, and when neither lookup matches it returns without error and writes
\* nothing.
C5_LookupThenFallback ==
    [][ \A wompiTransactionId \in TransactionIdInputs, status \in DeliveredStatuses,
           externalReference \in ReferenceInputs :
          updatePaymentStatus(wompiTransactionId, status, externalReference)
              => /\ Len(purchases') = Len(purchases)
                 /\ Cardinality(Changed) <= 1
                 /\ Changed \subseteq
                        (IF MatchesTransaction(wompiTransactionId) # {}
                            THEN MatchesTransaction(wompiTransactionId)
                            ELSE MatchesReference(externalReference))
                 /\ UNCHANGED <<orderDetails, nextDetailId, sessions, call>>
                 /\ last'.op = "updatePaymentStatus" /\ last'.result = OK
                 /\ (MatchesTransaction(wompiTransactionId) = {}
                        /\ MatchesReference(externalReference) = {})
                       => UNCHANGED purchases /\ last'.target = 0 ]_vars

\* A delivery matched nothing while purchases were stored, and another one reached its
\* purchase through the fallback reference
C5_Witness ==
    /\ last.op = "updatePaymentStatus"
    /\ last.target = 0
    /\ Len(purchases) = 2
    /\ \E id \in PurchaseIds : purchases[id].wompiTransactionId = UnknownId

\* The fields of a purchase row other than the given ones are equal in p and q
SameExcept(p, q, fields) == \A f \in (DOMAIN p) \ fields : p[f] = q[f]

\* C6: when updatePaymentStatus finds a purchase it overwrites that purchase's status
\* and updatedAt and nothing else: every other field of it (wompiTransactionId
\* included), the line items and every other purchase are unchanged, whichever lookup
\* matched.
C6_OverwritesStatusAndUpdatedAtOnly ==
    [][ \A wompiTransactionId \in TransactionIdInputs, status \in DeliveredStatuses,
           externalReference \in ReferenceInputs :
          updatePaymentStatus(wompiTransactionId, status, externalReference)
              => /\ Len(purchases') = Len(purchases)
                 /\ \A id \in PurchaseIds :
                       IF id = last'.target
                           THEN /\ purchases'[id].status = status
                                /\ purchases'[id].updatedAt = now
                                /\ SameExcept(purchases[id], purchases'[id],
                                              {"status", "updatedAt"})
                           ELSE purchases'[id] = purchases[id]
                 /\ UNCHANGED <<orderDetails, nextDetailId, sessions>> ]_vars

\* C6 as the code has it: the update overwrites status, updatedAt and
\* wompiTransactionId (with the delivered transaction id, which changes the stored one
\* exactly when the match came from the fallback reference) and nothing else.
C6_OverwritesStatusTransactionIdUpdatedAt ==
    [][ \A wompiTransactionId \in TransactionIdInputs, status \in DeliveredStatuses,
           externalReference \in ReferenceInputs :
          updatePaymentStatus(wompiTransactionId, status, externalReference)
              => /\ Len(purchases') = Len(purchases)
                 /\ \A id \in PurchaseIds :
                       IF id = last'.target
                           THEN /\ purchases'[id].status = status
                                /\ purchases'[id].updatedAt = now
                                /\ purchases'[id].wompiTransactionId = wompiTransactionId
                                /\ (id \in MatchesTransaction(wompiTransactionId)
                                      => purchases'[id].wompiTransactionId
                                            = purchases[id].wompiTransactionId)
                                /\ SameExcept(purchases[id], purchases'[id],
                                              {"status", "updatedAt", "wompiTransactionId"})
                           ELSE purchases'[id] = purchases[id]
                 /\ UNCHANGED <<orderDetails, nextDetailId, sessions>> ]_vars

\* A delivery matched through the fallback reference and left its transaction id,
\* status and time on a purchase that has a line item
C6_Witness ==
    /\ last.op = "updatePaymentStatus"
    /\ last.target \in PurchaseIds
    /\ purchases[last.target].wompiTransactionId = UnknownId
    /\ purchases[last.target].status = "APPROVED"
    /\ purchases[last.target].updatedAt = MaxTime
    /\ detailsOf(last.target) # {}

\* Delivering the same call again, in the state the first delivery left: it finds the
\* purchase the first one wrote (none if the first was a no-op) and its update changes
\* no field of it other than updatedAt
RedeliveryChangesNothing(wompiTransactionId, status, externalReference) ==
    LET found == lookupPurchase(wompiTransactionId, externalReference)
    IN  /\ found = (IF last.target = 0 THEN {} ELSE {last.target})
        /\ \A id \in found :
              SameExcept(purchases[id],
                         statusUpdate(purchases[id], status, wompiTransactionId),
                         {"updatedAt"})

\* C7: from any reachable state, a second delivery of the same updatePaymentStatus
\* call targets the purchase the first delivery targeted (or is a no-op if the first
\* was) and leaves every field except updatedAt as the first delivery left it.
C7_Idempotent ==
    [][ \A wompiTransactionId \in TransactionIdInputs, status \in DeliveredStatuses,
           externalReference \in ReferenceInputs :
          updatePaymentStatus(wompiTransactionId, status, externalReference)
              => RedeliveryChangesNothing(wompiTransactionId, status,
                                          externalReference)' ]_vars

\* C4: a purchase starts PENDING, its status changes only from PENDING to one of
\* APPROVED, COMPLETED, REJECTED, CANCELLED, FAILED, and so never returns to PENDING.
C4_OneDirectional ==
    [][ /\ \A id \in 1..Len(purchases') :
              id \notin PurchaseIds => purchases'[id].status = "PENDING"
        /\ \A id \in PurchaseIds :
              purchases'[id].status # purchases[id].status
                  => /\ purchases[id].status = "PENDING"
                     /\ purchases'[id].status \in Statuses \ {"PENDING"} ]_vars

----------------------------------------------------------------------------
(* Claims about status updates by reference (SpecReference) *)

\* C9: updatePurchaseStatusByReference sets status and updatedAt on every purchase
\* whose externalReference is the reference and on no other, changes nothing else,
\* raises no error when nothing matches; and in every state at most one purchase has a
\* given reference.
C9_ByReferenceAndUnique ==
    [][ /\ \A reference \in ReferenceInputs, status \in DeliveredStatuses :
              updatePurchaseStatusByReference(reference, status)
                  => /\ Len(purchases') = Len(purchases)
                     /\ \A id \in PurchaseIds :
                           IF purchases[id].externalReference = reference
                               THEN /\ purchases'[id].status = status
                                    /\ purchases'[id].updatedAt = now
                                    /\ SameExcept(purchases[id], purchases'[id],
                                                  {"status", "updatedAt"})
                               ELSE purchases'[id] = purchases[id]
                     /\ UNCHANGED <<orderDetails, nextDetailId, sessions, call>>
                     /\ last'.result = OK
        /\ \A id1, id2 \in 1..Len(purchases') :
              purchases'[id1].externalReference = purchases'[id2].externalReference
                  => id1 = id2 ]_vars

----------------------------------------------------------------------------
(* Claims about line items (SpecDetails) *)

\* C3: in every state between operations, every Purchase row has at least one
\* OrderDetail row referencing it (a createPurchase still running is not held to it
\* for the row it is writing; one that failed is).
C3_EveryPurchaseHasDetails ==
    \A id \in PurchaseIds :
        (call.pc = "idle" \/ call.purchaseId # id) => detailsOf(id) # {}

\* C8: every OrderDetail row has quantity > 0 and totalPrice = unitPrice x quantity,
\* and a change of the catalog price leaves the existing rows as they are.
C8_LineItemArithmetic ==
    [][ /\ \A d \in orderDetails' :
              d.quantity > 0 /\ d.totalPrice = d.unitPrice * d.quantity
        /\ products' # products => orderDetails' = orderDetails ]_vars

----------------------------------------------------------------------------
(* Claims about buyer corrections (SpecBuyer) *)

BuyerFields == {"buyerEmail", "buyerName", "buyerContactNumber", "updatedAt"}

\* The well-formed addresses among the inputs
WellFormedEmails == {GoodEmail, OtherEmail}

\* A patch the specification rejects: it carries an email that does not match the
\* pattern, or a name shorter than 2 characters after trim
RejectedPatch(updateData) ==
    \/ updateData.buyerEmail.present /\ updateData.buyerEmail.value \notin WellFormedEmails
    \/ updateData.buyerName.present /\ Len(trim(updateData.buyerName.value)) < 2

\* The same, for the fields the code looks at: an empty string counts as absent
RejectedNonEmpty(updateData) ==
    \/ /\ updateData.buyerEmail.present
       /\ updateData.buyerEmail.value # <<>>
       /\ updateData.buyerEmail.value \notin WellFormedEmails
    \/ /\ updateData.buyerName.present
       /\ updateData.buyerName.value # <<>>
       /\ Len(trim(updateData.buyerName.value)) < 2

\* What updatePurchase may touch
BuyerFrame(purchaseId) ==
    /\ Len(purchases') = Len(purchases)
    /\ \A id \in PurchaseIds :
          IF id = purchaseId
              THEN SameExcept(purchases[id], purchases'[id], BuyerFields)
              ELSE purchases'[id] = purchases[id]
    /\ UNCHANGED <<orderDetails, nextDetailId, sessions, call>>

\* C10: updatePurchase changes only buyerEmail, buyerName, buyerContactNumber and
\* updatedAt of the addressed purchase; if the purchase does not exist or the patch
\* carries a malformed email or a too-short name, the call fails and writes nothing.
C10_BuyerFieldsOnly ==
    [][ \A purchaseId \in 1..(MaxPurchases + 1), updateData \in UpdatePurchasePatches :
          updatePurchase(purchaseId, updateData)
              => /\ BuyerFrame(purchaseId)
                 /\ (purchaseId \notin PurchaseIds \/ RejectedPatch(updateData))
                       => UNCHANGED purchases /\ last'.result = "Error" ]_vars

\* C10 as the code has it: an empty email or name in the patch is ignored, not
\* rejected; a non-empty malformed email or too-short name fails the call.
C10_BuyerFieldsOnlyNonEmpty ==
    [][ \A purchaseId \in 1..(MaxPurchases + 1), updateData \in UpdatePurchasePatches :
          updatePurchase(purchaseId, updateData)
              => /\ BuyerFrame(purchaseId)
                 /\ (purchaseId \notin PurchaseIds \/ RejectedNonEmpty(updateData))
                       => UNCHANGED purchases /\ last'.result = "Error" ]_vars

\* A patch was applied to the second purchase, whose name is now the trimmed one,
\* while the first kept its buyer
C10_Witness ==
    /\ last.op = "updatePurchase"
    /\ last.result = OK
    /\ last.target = 2
    /\ purchases[2].buyerName = trim(PaddedName)
    /\ purchases[2].buyerEmail = GoodEmail
    /\ purchases[1].buyerName = GoodName

----------------------------------------------------------------------------
(* Claims about reports and email (SpecReports) *)

\* The statuses that read APPROVED or COMPLETED when case is ignored
PaidIgnoringCase == {"APPROVED", "COMPLETED", "approved", "Completed"}

\* What a resendEmailForPurchase step does, given the statuses that allow the email
ResendOutcome(purchaseId, allowed) ==
    /\ UNCHANGED <<products, purchases, orderDetails, nextDetailId, sessions, call>>
    /\ last'.op = "resendEmailForPurchase"
    /\ IF purchaseId \in PurchaseIds /\ purchases[purchaseId].status \in allowed
           THEN /\ last'.result = OK
                /\ Len(last'.value) = 1
                /\ last'.value[1].buyerEmail = purchases[purchaseId].buyerEmail
                /\ last'.value[1].totalAmount = purchases[purchaseId].amount
           ELSE /\ last'.result = "Error"
                /\ Len(last'.value) = 0

RECURSIVE SumAmount(_)
\* The sum of amount over a set of purchases
SumAmount(ids) ==
    IF ids = {} THEN 0
    ELSE LET id == CHOOSE x \in ids : TRUE
         IN  purchases[id].amount + SumAmount(ids \ {id})

\* What generateBackupData reports, given the statuses that count as sold
RevenueOver(counted) ==
    LET paid == { id \in PurchaseIds : purchases[id].status \in counted }
    IN  /\ last'.value.totalRevenue = SumAmount(paid)
        /\ last'.value.uniqueProductsSold
              = Cardinality({ d.productId : d \in { e \in orderDetails :
                                                        e.purchaseId \in paid } })
        /\ UNCHANGED <<products, purchases, orderDetails, nextDetailId, sessions, call>>

\* C12: generateBackupData reports totalRevenue = the sum of amount over exactly the
\* purchases whose status is APPROVED or COMPLETED, and uniqueProductsSold = the number
\* of distinct productId among the line items of exactly those purchases.
C12_RevenueOfPaid ==
    [][ generateBackupData => RevenueOver({"APPROVED", "COMPLETED"}) ]_vars

\* C12 as the code has it: the status is compared after upper-casing.
C12_RevenueOfPaidIgnoringCase ==
    [][ generateBackupData => RevenueOver(PaidIgnoringCase) ]_vars

\* A report over an APPROVED purchase with two products and a PENDING one
C12_Witness ==
    /\ last.op = "generateBackupData"
    /\ last.value.totalRevenue = 6999
    /\ last.value.uniqueProductsSold = 2
    /\ last.value.pendingCount = 1
    /\ last.value.approvedCount = 1

----------------------------------------------------------------------------
(* Claims about queries by email (SpecQuery) *)

\* The item of a result that stands for a line item: same product, quantity and
\* prices, and the product's name
ItemFor(detail, items) ==
    \E it \in items :
        /\ it.productId = detail.productId
        /\ it.quantity = detail.quantity
        /\ it.unitPrice = detail.unitPrice
        /\ it.totalPrice = detail.totalPrice
        /\ it.productName = IF detail.productId \in DOMAIN products
                                THEN products[detail.productId].name
                                ELSE "Unknown Product"

----------------------------------------------------------------------------
(* Claims about the OrderDetail adapter (SpecAdapter) *)

\* C14: update and delete of an id that no OrderDetail row has return null and false
\* and leave every stored OrderDetail unchanged; delete of an existing id removes
\* exactly that row and returns true.
C14_NotFoundSentinel ==
    [][ \A id \in DetailIdInputs :
          IF \A d \in orderDetails : d.id # id
              THEN /\ \A orderDetail \in OrderDetailPatches :
                         orderDetail_update(id, orderDetail)
                             => /\ last'.result = "null"
                                /\ orderDetails' = orderDetails
                   /\ orderDetail_delete(id)
                         => /\ last'.result = "false"
                            /\ orderDetails' = orderDetails
          ELSE orderDetail_delete(id)
                  => /\ last'.result = "true"
                     /\ orderDetails' = { d \in orderDetails : d.id # id }
                     /\ Cardinality(orderDetails') = Cardinality(orderDetails) - 1 ]_vars

\* A line item was deleted and the other line item of its purchase is still stored
C14_Witness ==
    /\ last.op = "orderDetail.delete"
    /\ last.result = "true"
    /\ \E d \in orderDetails : d.id # last.target /\ d.purchaseId = 1

----------------------------------------------------------------------------
(* Claims about the write sequence of createPurchase (SpecCreate) *)

\* C15: when createPurchase fails after the Purchase row was created, the error
\* reaches the caller, nothing already written is rolled back, and the purchase is
\* left with status PENDING, orderStatus PENDING, preferenceId empty and
\* wompiTransactionId unset.
C15_FailureLeavesPendingPurchase ==
    [][ createPurchase_throw
          => /\ last'.op = "createPurchase"
             /\ last'.result = "Error"
             /\ UNCHANGED <<purchases, orderDetails, nextDetailId, sessions>>
             /\ call.purchaseId \in 1..Len(purchases')
             /\ LET purchase == purchases'[call.purchaseId]
                IN  /\ purchase.status = "PENDING"
                    /\ purchase.orderStatus = "PENDING"
                    /\ purchase.preferenceId = EmptyId
                    /\ purchase.wompiTransactionId = NullId ]_vars

\* createPurchase failed between the two line items of a cart: the purchase and its
\* first line item are stored
C15_Witness ==
    /\ last.op = "createPurchase"
    /\ last.result = "Error"
    /\ last.msg = "details"
    /\ call = Idle
    /\ last.target \in PurchaseIds
    /\ detailsOf(last.target) # {}
    /\ purchases[last.target].status = "PENDING"
    /\ purchases[last.target].wompiTransactionId = NullId


\* C16: within one createPurchase call the Purchase row is created, with status
\* PENDING, only once validation has passed; then one OrderDetail per cart item, in
\* cart order; then the gateway is called, once, with every line item stored; then
\* the gateway's transaction id is written to the purchase and the result returned.
C16_StepOrder ==
    [][ /\ Len(purchases') > Len(purchases)
           => /\ call.pc = "idle" /\ call'.pc = "details" /\ call'.i = 1
              /\ Len(purchases') = Len(purchases) + 1
              /\ call'.purchaseId = Len(purchases')
              /\ purchases'[Len(purchases')].status = "PENDING"
              /\ detailsOf(Len(purchases')) = {}
              /\ orderDetails' = orderDetails /\ sessions' = sessions
              /\ \E request \in CreatePurchaseRequests :
                    /\ createPurchase(request)
                    /\ validatePurchaseRequest(request) = OK
                    /\ validateAndCalculateItems(request.items).kind = OK
                    /\ Len(call'.items) = Len(request.items)
                    /\ \A i \in 1..Len(request.items) :
                          /\ call'.items[i].productId = request.items[i].productId
                          /\ call'.items[i].quantity = request.items[i].quantity
        /\ orderDetails' # orderDetails
           => /\ call.pc = "details"
              /\ call.i \in 1..Len(call.items)
              /\ Cardinality({ d \in orderDetails : d.purchaseId = call.purchaseId })
                    = call.i - 1
              /\ \E d \in orderDetails' \ orderDetails :
                    /\ orderDetails' = orderDetails \cup {d}
                    /\ d.purchaseId = call.purchaseId
                    /\ d.productId = call.items[call.i].productId
                    /\ d.quantity = call.items[call.i].quantity
                    /\ \A e \in orderDetails : e.id < d.id
              /\ call'.i = call.i + 1
              /\ purchases' = purchases /\ sessions' = sessions
        /\ sessions' # sessions
           => /\ call.pc = "gateway" /\ call'.pc = "update"
              /\ Len(sessions') = Len(sessions) + 1
              /\ Len(sessions) < call.purchaseId
              /\ Cardinality({ d \in orderDetails : d.purchaseId = call.purchaseId })
                    = Len(call.items)
              /\ purchases[call.purchaseId].wompiTransactionId = NullId
              /\ call'.tx = sessions'[Len(sessions')].transactionId
              /\ purchases' = purchases /\ orderDetails' = orderDetails
        /\ \A id \in PurchaseIds :
              purchases'[id].wompiTransactionId # purchases[id].wompiTransactionId
                 => /\ call.pc = "update" /\ call' = Idle
                    /\ id = call.purchaseId
                    /\ purchases'[id].wompiTransactionId
                          = sessions[Len(sessions)].transactionId
                    /\ purchases'[id].preferenceId = purchases'[id].wompiTransactionId
                    /\ last'.op = "createPurchase" /\ last'.result = OK
                    /\ last'.value.wompiTransactionId = purchases'[id].wompiTransactionId
                    /\ sessions' = sessions /\ orderDetails' = orderDetails
        /\ (last' # last /\ last'.op = "createPurchase" /\ last'.result = OK)
           => /\ call.pc = "update"
              /\ purchases'[call.purchaseId].wompiTransactionId = call.tx ]_vars

\* A call with a two-item cart returned: two line items, one session, its
\* transaction id on the purchase
C16_Witness ==
    /\ last.op = "createPurchase"
    /\ last.result = OK
    /\ call = Idle
    /\ Len(sessions) = 1
    /\ Cardinality(detailsOf(1)) = 2
    /\ purchases[1].wompiTransactionId = sessions[1].transactionId


\* The first item of the cart names a color and an available product whose colors
\* data is malformed or absent, and nothing before the color check rejects the request
ColorOfUnlistedProduct(request) ==
    /\ validatePurchaseRequest(request) = OK
    /\ Len(request.items) >= 1
    /\ LET item == request.items[1]
       IN  /\ item.selectedColor # ""
           /\ item.quantity > 0
           /\ item.productId \in DOMAIN products
           /\ products[item.productId].status = "available"
           /\ products[item.productId].colors.kind \in {"malformed", "null"}

----------------------------------------------------------------------------
(* Claims about webhooks and concurrent writers (SpecWebhook, SpecStatus) *)

\* The purchase session k was created for: the one the running call made, while the
\* transaction id is not written yet, else the one holding it as preferenceId
ownerOf(k) ==
    IF call.pc = "update" /\ call.tx = sessions[k].transactionId
        THEN {call.purchaseId}
    ELSE { id \in PurchaseIds : purchases[id].preferenceId = sessions[k].transactionId }

\* C18: a webhook for the gateway transaction of a purchase made by createPurchase,
\* delivered at any point after the session was created (also before the transaction
\* id is written to the purchase), leaves the purchase with the delivered status.
C18_WebhookNeverLost ==
    [][ \A k \in 1..Len(sessions), status \in DeliveredStatuses :
          webhook(k, status)
              => \A id \in ownerOf(k) : purchases'[id].status = status ]_vars


\* C19: the last write of createPurchase and the write of updatePurchase leave the
\* status of every purchase as the last status update set it, also when they run
\* between or after status updates of the same purchase.
C19_StatusKeptByOtherWriters ==
    [][ (purchases' # purchases)
          => ((\/ createPurchase_update
               \/ \E purchaseId \in 1..MaxPurchases, updateData \in StatusPatches :
                     updatePurchase(purchaseId, updateData))
                => \A id \in PurchaseIds : purchases'[id].status = purchases[id].status) ]_vars

\* A status update reached the purchase while its creation was running (after a
\* buyer correction), and the creation's last write came after it
C19_Witness ==
    /\ last.op = "createPurchase"
    /\ last.result = OK
    /\ call = Idle
    /\ purchases[last.target].status = "APPROVED"
    /\ purchases[last.target].preferenceId = sessions[Len(sessions)].transactionId
    /\ purchases[last.target].buyerEmail = OtherEmail
----------------------------------------------------------------------------
(* Claims about WompiPurchaseService.createPurchase (SpecWompi) *)

\* The requests the claim lists as failing validation
InvalidWompiRequest(request) ==
    \/ request.wallpaperNumbers = <<>>
    \/ \E i \in 1..Len(request.wallpaperNumbers) :
          request.wallpaperNumbers[i] \notin 1..5000
    \/ request.buyerEmail \in BadEmails
    \/ request.buyerName \in BadNames
    \/ request.buyerIdentificationNumber = ShortIdNumber
    \/ request.buyerContactNumber = ShortContact
    \/ request.amount < 1000

\* C20: WompiPurchaseService.createPurchase with a request failing validation calls
\* no gateway and writes nothing; a gateway failure leaves no Purchase row; on
\* success exactly one Purchase row is added, with status PENDING, the request's
\* amount as given, and externalReference, preferenceId and wompiTransactionId all
\* equal to the gateway's reference.
C20_GatewayBeforeWrite ==
    [][ (last' # last \/ purchases' # purchases)
          => \A request \in WompiRequests :
                /\ (InvalidWompiRequest(request) /\ wompi_createPurchase(request))
                      => /\ last'.result = "ValidationError"
                         /\ UNCHANGED <<purchases, orderDetails, nextDetailId, sessions>>
                /\ wompi_createPurchase_gatewayThrows(request)
                      => /\ last'.result = "Error"
                         /\ UNCHANGED <<purchases, orderDetails, nextDetailId>>
                /\ (~InvalidWompiRequest(request) /\ wompi_createPurchase(request))
                      => /\ last'.result = OK
                         /\ Len(sessions') = Len(sessions) + 1
                         /\ Len(purchases') = Len(purchases) + 1
                         /\ SubSeq(purchases', 1, Len(purchases)) = purchases
                         /\ orderDetails' = orderDetails
                         /\ LET purchase == purchases'[Len(purchases')]
                                reference == sessions'[Len(sessions')].reference
                            IN  /\ purchase.status = "PENDING"
                                /\ purchase.amount = request.amount
                                /\ purchase.externalReference = reference
                                /\ purchase.preferenceId = reference
                                /\ purchase.wompiTransactionId = reference
                                /\ last'.value.reference = reference ]_vars

\* A second purchase was made, for 2500, and holds the reference of its session
C20_Witness ==
    /\ last.op = "wompi.createPurchase"
    /\ last.result = OK
    /\ last.target = 2
    /\ Len(sessions) = 2
    /\ purchases[2].amount = 2500
    /\ purchases[2].status = "PENDING"
    /\ purchases[2].externalReference = sessions[2].reference
    /\ purchases[1].externalReference # purchases[2].externalReference

----------------------------------------------------------------------------
(* Claims about the backup's counters (SpecBackup) *)

\* C21: the per-status counters of generateBackupData partition the purchases:
\* approvedCount + completedCount + pendingCount + cancelledCount + rejectedCount
\* + failedCount = totalPurchases, whatever statuses the status updates delivered.
C21_CountersPartitionPurchases ==
    last.op = "generateBackupData"
        => LET statistics == last.value
           IN  statistics.approvedCount + statistics.completedCount
                 + statistics.pendingCount + statistics.cancelledCount
                 + statistics.rejectedCount + statistics.failedCount
                   = statistics.totalPurchases

====
